---- MODULE Spec2Model ----
(***************************************************************************)
(* Model of the GitHub-events log of pr-agent.                              *)
(*                                                                          *)
(*   src/app/webhook_server.py  the aiohttp process: handle_webhook         *)
(*                              appends each delivery to a JSON file        *)
(*   src/app/server.py          the MCP tool process: the tools             *)
(*                              get_recent_actions_events and               *)
(*                              get_workflow_status read a JSON file        *)
(*                                                                          *)
(* Python values are tagged records [t, v]: t is the Python/JSON type, v    *)
(* the value.  A call either returns a value or raises: [kind, value].      *)
(***************************************************************************)
EXTENDS Integers, Sequences, FiniteSets, TLC

(***************************************************************************)
(* Python / JSON values                                                     *)
(***************************************************************************)
Null == [t |-> "null", v |-> "null"]

Str(s) == [t |-> "str", v |-> s]

Num(i) == [t |-> "int", v |-> i]

Obj(d) == [t |-> "obj", v |-> d]

Arr(s) == [t |-> "arr", v |-> s]

\* the dict literal {}
EmptyDict == Obj([k \in {} |-> Null])

Return(x) == [kind |-> "return", value |-> x]

Raise(e) == [kind |-> "raise", value |-> e]

Max(a, b) == IF a >= b THEN a ELSE b

Min(a, b) == IF a <= b THEN a ELSE b

\* dict.get(k, default) on a dict d (a function from keys to values)
DictGet(d, k, default) == IF k \in DOMAIN d THEN d[k] ELSE default

\* a == b between Python values: values of different types are unequal
PyEq(a, b) == a.t = b.t /\ a.v = b.v

\* bool(x): None, "", [] and {} are falsy
Truthy(x) ==
  CASE x.t = "null" -> FALSE
    [] x.t = "str" -> x.v # ""
    [] x.t = "arr" -> Len(x.v) > 0
    [] x.t = "obj" -> DOMAIN x.v # {}
    [] OTHER -> TRUE

\* s[start:] with Python's rule for a negative or too large start
PySliceFrom(s, start) ==
  LET n == Len(s)
      st == IF start < 0 THEN Max(start + n, 0) ELSE Min(start, n)
  IN  SubSeq(s, st + 1, n)

\* a > b between two Python strings, given as sequences of character codes:
\* lexicographic, a proper prefix being smaller
RECURSIVE StrGT(_, _)
StrGT(a, b) ==
  IF a = <<>> THEN FALSE
  ELSE IF b = <<>> THEN TRUE
  ELSE IF Head(a) # Head(b) THEN Head(a) > Head(b)
  ELSE StrGT(Tail(a), Tail(b))

(***************************************************************************)
(* Paths: sequences of components.  Each process computes its EVENTS_FILE   *)
(* from the place of its own source file.                                   *)
(***************************************************************************)
Parent(p) == SubSeq(p, 1, Len(p) - 1)

Join(p, name) == Append(p, name)

WebhookServerPy == <<"src", "app", "webhook_server.py">>

ServerPy == <<"src", "app", "server.py">>

\* webhook_server.py: Path(__file__).parent.parent / "data" / "github_events" / "github_events.json"
EVENTS_FILE_webhook ==
  Join(Join(Join(Parent(Parent(WebhookServerPy)), "data"), "github_events"),
       "github_events.json")

\* server.py: Path(__file__).parent / "github_events.json"
EVENTS_FILE_server == Join(Parent(ServerPy), "github_events.json")

Paths == {EVENTS_FILE_webhook, EVENTS_FILE_server}

(***************************************************************************)
(* Files.  A file is missing, holds a complete JSON document, or is         *)
(* "partial": it exists and its bytes are no JSON document (zero bytes      *)
(* after open(.., "w"), a prefix of a dump in progress, or damaged).        *)
(***************************************************************************)
MissingFile == [kind |-> "missing", doc |-> Null]

PartialFile == [kind |-> "partial", doc |-> Null]

JsonFile(doc) == [kind |-> "json", doc |-> doc]

\* json.load(f) of an existing file
JsonLoad(file) ==
  IF file.kind = "json" THEN Return(file.doc) ELSE Raise("JSONDecodeError")

\* json.dumps(x): the text of the document x
JsonDumps(x) == Return(x)

(***************************************************************************)
(* Bounds and inputs                                                        *)
(***************************************************************************)
\* connections the aiohttp server handles at the same time
MaxSlots == 2

\* webhook deliveries of a run of Spec
MaxRequests == 3

\* webhook deliveries of a run of SpecCap (more than the cap of the log)
MaxAppends == 102

\* the length of the logs the tools are run on in SpecQuery
MaxLogLen == 3

\* the largest limit given to get_recent_actions_events
MaxLimit == 4

\* events = events[-100:]
Cap == 100

Slots == 1..MaxSlots

\* a workflow_run object of a GitHub payload
Run(name, updated, number, conclusion) ==
  Obj([name |-> Str(name), status |-> Str("completed"),
       conclusion |-> conclusion, run_number |-> Num(number),
       updated_at |-> Str(updated), html_url |-> Str("https://gh/run")])

\* the same, its "conclusion" key absent
RunNoConclusion(name, updated, number) ==
  Obj([name |-> Str(name), status |-> Str("queued"),
       run_number |-> Num(number),
       updated_at |-> Str(updated), html_url |-> Str("https://gh/run")])

\* request bodies: text that is no JSON, or the text of a JSON document
Malformed == [wellformed |-> FALSE, value |-> Null]

Json(x) == [wellformed |-> TRUE, value |-> x]

Bodies ==
  << Malformed,
     Json(Obj([action |-> Str("completed"),
               workflow_run |-> Run("CI", <<2>>, 7, Str("success")),
               repository |-> Obj([full_name |-> Str("o/r")]),
               sender |-> Obj([login |-> Str("u")])])),
     Json(EmptyDict),
     Json(Obj([action |-> Null, repository |-> Null])),
     Json(Obj([sender |-> Null, check_run |-> Obj([id |-> Num(1)])])),
     Json(Arr(<<>>)) >>

\* request headers: without and with X-GitHub-Event
Headers == << [k \in {} |-> ""], [k \in {"X-GitHub-Event"} |-> "workflow_run"] >>

\* the <<header, body>> of SpecCap's deliveries: a workflow_run event
CapInput == <<2, 2>>

(***************************************************************************)
(* handle_webhook, webhook_server.py                                        *)
(***************************************************************************)
\* a parse that falls back to {} on a body that is no JSON
RequestJsonLenient(body) ==
  IF body.wellformed THEN Return(body.value) ELSE Return(EmptyDict)

\* await request.json()
RequestJson(body) ==
  IF body.wellformed THEN Return(body.value) ELSE Raise("JSONDecodeError")

\* x.get(k, default) where x is whatever an earlier step gave: only a dict has get
PyGet(x, k, default) ==
  IF x.t = "obj" THEN Return(DictGet(x.v, k, default)) ELSE Raise("AttributeError")

\* lines 22-30: the event dict built from the headers and the parsed body
BuildEvent(headers, data, ts) ==
  LET repo == PyGet(data, "repository", EmptyDict)
      sndr == PyGet(data, "sender", EmptyDict)
  IN  IF data.t # "obj" THEN Raise("AttributeError")
      ELSE IF repo.value.t # "obj" \/ sndr.value.t # "obj"
      THEN Raise("AttributeError")
      ELSE Return(
        [timestamp |-> ts,
         event_type |-> DictGet(headers, "X-GitHub-Event", "unknown"),
         action |-> DictGet(data.v, "action", Null),
         workflow_run |-> DictGet(data.v, "workflow_run", Null),
         check_run |-> DictGet(data.v, "check_run", Null),
         repository |-> DictGet(repo.value.v, "full_name", Null),
         sender |-> DictGet(sndr.value.v, "login", Null)])

\* lines 32-36: events = [] unless the file exists, then json.load
LoadEvents(file) ==
  IF file.kind = "missing" THEN Return(Arr(<<>>)) ELSE JsonLoad(file)

\* events[:100] in place of events[-100:]: the oldest events kept
TruncateKeepOldest(s) == SubSeq(s, 1, Min(Len(s), Cap))

\* line 39: events[-100:]
Truncate(s) == PySliceFrom(s, 0 - Cap)

\* lines 38-39: events.append(event); events = events[-100:]
AppendEvent(events, event) ==
  IF events.t # "arr" THEN Raise("AttributeError")
  ELSE Return(Arr(Truncate(Append(events.v, event))))

\* lines 20-39 for one request: what the handler holds when it reaches line 41
\* (its event and the list to write), or the exception the except clause catches
Prepare(headers, body, file, ts) ==
  LET data == RequestJson(body)
      event == BuildEvent(headers, data.value, ts)
      loaded == LoadEvents(file)
      events == AppendEvent(loaded.value, event.value)
  IN  IF data.kind = "raise" THEN data
      ELSE IF event.kind = "raise" THEN event
      ELSE IF loaded.kind = "raise" THEN loaded
      ELSE IF events.kind = "raise" THEN events
      ELSE Return([event |-> event.value, events |-> events.value])

\* web.json_response({"status": "received"})
Received == [status |-> 200, body |-> Obj([status |-> Str("received")])]

\* web.json_response({"error": str(e)}, status=400)
ErrorResponse(e) == [status |-> 400, body |-> Obj([error |-> Str(e)])]

NoResponse == [status |-> 0, body |-> Null]

(***************************************************************************)
(* The tools of server.py                                                   *)
(***************************************************************************)
\* json.dumps({"message": "No GitHub Actions events received yet"})
NoEventsMessage ==
  JsonDumps(Obj([message |-> Str("No GitHub Actions events received yet")]))

\* get_recent_actions_events(limit), lines 159-166, on the file at EVENTS_FILE
get_recent_actions_events(file, limit) ==
  IF file.kind = "missing" THEN NoEventsMessage
  ELSE LET events == JsonLoad(file)
       IN  IF events.kind = "raise" THEN events
           \* a dict sliced: TypeError (unhashable slice), KeyError from Python 3.12
           ELSE IF events.value.t # "arr" THEN Raise("TypeError")
           ELSE JsonDumps(Arr(PySliceFrom(events.value.v, 0 - limit)))

\* line 180: [e for e in events if e.get("workflow_run") is not None]
RECURSIVE SelectPresent(_)
SelectPresent(events) ==
  IF events = <<>> THEN <<>>
  ELSE (IF Head(events).workflow_run.t # "null" THEN <<Head(events)>> ELSE <<>>)
       \o SelectPresent(Tail(events))

\* line 182: [e for e in events if e.get("workflow_run") == workflow_name]
RECURSIVE SelectNamed(_, _)
SelectNamed(events, workflow_name) ==
  IF events = <<>> THEN <<>>
  ELSE (IF PyEq(Head(events).workflow_run, workflow_name)
        THEN <<Head(events)>> ELSE <<>>)
       \o SelectNamed(Tail(events), workflow_name)

\* lines 180-182
WorkflowEvents(events, workflow_name) ==
  IF Truthy(workflow_name) THEN SelectNamed(events, workflow_name)
  ELSE SelectPresent(events)

\* lines 189-196: the record stored for a run
StatusRecord(run) ==
  [name |-> run.name, status |-> run.status,
   conclusion |-> DictGet(run, "conclusion", Null),
   run_number |-> run.run_number, updated_at |-> run.updated_at,
   html_url |-> run.html_url]

\* the keys a run is indexed by with [], lines 187-195
RunKeys == {"name", "status", "run_number", "updated_at", "html_url"}

\* every event of a name replaces the record kept for it: the last one wins
NewerAlways(run, workflows) == run.name.v \in DOMAIN workflows \cup {run.name.v}

\* line 188: name not in workflows or run["updated_at"] > workflows[name]["updated_at"]
Newer(run, workflows) ==
  \/ run.name.v \notin DOMAIN workflows
  \/ StrGT(run.updated_at.v, workflows[run.name.v].updated_at.v)

\* lines 184-196: the loop over workflow_events, workflows being the dict so far
RECURSIVE ScanWorkflows(_, _)
ScanWorkflows(workflow_events, workflows) ==
  IF workflow_events = <<>> THEN Return(workflows)
  ELSE LET run == Head(workflow_events).workflow_run
       IN  IF run.t # "obj" THEN Raise("TypeError")
           ELSE IF ~(RunKeys \subseteq DOMAIN run.v) THEN Raise("KeyError")
           ELSE IF run.v.name.t # "str" \/ run.v.updated_at.t # "str"
           THEN Raise("TypeError")
           ELSE ScanWorkflows(
                  Tail(workflow_events),
                  IF Newer(run.v, workflows)
                  THEN [n \in DOMAIN workflows \cup {run.v.name.v} |->
                          IF n = run.v.name.v THEN StatusRecord(run.v)
                          ELSE workflows[n]]
                  ELSE workflows)

\* get_workflow_status(workflow_name), lines 171-198, on the file at EVENTS_FILE
get_workflow_status(file, workflow_name) ==
  IF file.kind = "missing" THEN NoEventsMessage
  ELSE LET events == JsonLoad(file)
       IN  IF events.kind = "raise" THEN events
           ELSE IF ~Truthy(events.value) THEN NoEventsMessage
           \* a non-empty dict iterated: its keys are strings, without get
           ELSE IF events.value.t # "arr" THEN Raise("AttributeError")
           ELSE LET workflows ==
                      ScanWorkflows(WorkflowEvents(events.value.v, workflow_name),
                                    [n \in {} |-> Null])
                IN  IF workflows.kind = "raise" THEN workflows
                    ELSE JsonDumps(Obj(workflows.value))

(***************************************************************************)
(* The logs the tools are run on in SpecQuery: EVENTS_FILE of server.py is  *)
(* written by no code of the repository, so its content is an input.        *)
(***************************************************************************)
StoredEvent(run) ==
  [timestamp |-> 0, event_type |-> "workflow_run", action |-> Str("completed"),
   workflow_run |-> run, check_run |-> Null,
   repository |-> Str("o/r"), sender |-> Str("u")]

\* updated_at strings, as character codes: "1" < "10" < "2"
QRuns ==
  { Run("CI", <<1>>, 1, Str("failure")), Run("CI", <<1, 0>>, 2, Str("success")),
    Run("CI", <<2>>, 3, Null), RunNoConclusion("CI", <<2>>, 4),
    Run("Deploy", <<1>>, 5, Str("success")), Run("Deploy", <<2>>, 6, Str("success")) }

\* events as the data model has them: workflow_run a run object or null
QEvents == {StoredEvent(r) : r \in QRuns \cup {Null}}

\* an event whose workflow_run is no object (the payload {"workflow_run": "CI"})
OddEvent == StoredEvent(Str("CI"))

SeqsUpTo(S, n) == UNION {[1..k -> S] : k \in 0..n}

QLogs == SeqsUpTo(QEvents, MaxLogLen) \cup {<<OddEvent>>, <<OddEvent, OddEvent>>}

EnvFiles ==
  {MissingFile, PartialFile, JsonFile(EmptyDict)} \cup {JsonFile(Arr(l)) : l \in QLogs}

Limits == (0 - 1)..MaxLimit

WorkflowNames == {Null, Str(""), Str("CI"), Str("Deploy"), Str("Lint")}

(***************************************************************************)
(* State                                                                    *)
(***************************************************************************)
VARIABLES
  fs,         \* the file system: the file at each path
  now,        \* the clock datetime.now() reads
  conn,       \* the aiohttp server's connections: where each handler stands
  delivered,  \* webhook deliveries received so far
  appended,   \* history: the events whose append took effect, in that order
  ok200,      \* history: the deliveries answered 200
  tool,       \* the last tool call of the MCP process and what it gave
  overlapped  \* history: a handler ran while another delivery awaited its body

vars == <<fs, now, conn, delivered, appended, ok200, tool, overlapped>>

\* the handler holds no event
NoEvent == Null

IdleConn ==
  [pc |-> "idle", hdr |-> 0, body |-> 0, event |-> NoEvent, events |-> Null,
   resp |-> NoResponse]

NoCall == [op |-> "none", arg |-> Null, out |-> Return(Null), at |-> 0, quiet |-> TRUE]

Files(w, sv) == [p \in Paths |-> IF p = EVENTS_FILE_webhook THEN w ELSE sv]

\* a handler is between its load of the file (line 36) and the end of its dump (line 43)
InRewrite(s) == conn[s].pc \in {"opening", "dumping"}

\* handlers that could be switched between the load and the rewrite
LoopShared(s) == s \in Slots

\* the aiohttp event loop runs one handler at a time between awaits, and
\* lines 22-45 hold no await: a handler leaves "await request.json()" only
\* when no other handler is inside lines 22-45
LoopFree(s) == \A o \in Slots \ {s} : ~InRewrite(o)

Init ==
  /\ \E w \in {MissingFile, JsonFile(Arr(<<>>))} : fs = Files(w, MissingFile)
  /\ now = 1
  /\ conn = [s \in Slots |-> IdleConn]
  /\ delivered = 0
  /\ appended = <<>>
  /\ ok200 = 0
  /\ tool = NoCall
  /\ overlapped = FALSE

(***************************************************************************)
(* The webhook process                                                      *)
(***************************************************************************)
\* a POST to /webhook/github arrives: the handler starts and awaits the body
\* (connections are interchangeable: the lowest free one takes the request)
Receive(s, h, b, max) ==
  /\ conn[s].pc = "idle"
  /\ \A o \in 1..(s - 1) : conn[o].pc # "idle"
  /\ delivered < max
  /\ conn' = [conn EXCEPT ![s] = [IdleConn EXCEPT !.pc = "await_json", !.hdr = h, !.body = b]]
  /\ delivered' = delivered + 1
  /\ UNCHANGED <<fs, now, appended, ok200, tool, overlapped>>

\* lines 20-39, or 20 to the except clause at 46-47
RunHandler(s) ==
  /\ conn[s].pc = "await_json"
  /\ LoopFree(s)
  /\ LET body == Bodies[conn[s].body]
         p == Prepare(Headers[conn[s].hdr], body, fs[EVENTS_FILE_webhook], now)
     IN  /\ now' = IF RequestJson(body).kind = "return" THEN now + 1 ELSE now
         /\ conn' = [conn EXCEPT ![s] =
              IF p.kind = "raise"
              THEN [@ EXCEPT !.pc = "responding", !.resp = ErrorResponse(p.value)]
              ELSE [@ EXCEPT !.pc = "opening", !.event = p.value.event,
                             !.events = p.value.events]]
  /\ overlapped' = (overlapped \/ \E o \in Slots \ {s} : conn[o].pc = "await_json")
  /\ UNCHANGED <<fs, delivered, appended, ok200, tool>>

\* line 41: open(EVENTS_FILE, "w") truncates the file to zero bytes
OpenWrite(s) ==
  /\ conn[s].pc = "opening"
  /\ fs' = [fs EXCEPT ![EVENTS_FILE_webhook] = PartialFile]
  /\ conn' = [conn EXCEPT ![s].pc = "dumping"]
  /\ UNCHANGED <<now, delivered, appended, ok200, tool, overlapped>>

\* lines 43-45: json.dump, the file closed, the 200 response returned (the
\* handler's locals are gone with its frame)
Dump(s) ==
  /\ conn[s].pc = "dumping"
  /\ fs' = [fs EXCEPT ![EVENTS_FILE_webhook] = JsonFile(conn[s].events)]
  /\ appended' = Append(appended, conn[s].event)
  /\ conn' = [conn EXCEPT ![s] =
       [@ EXCEPT !.pc = "responding", !.event = NoEvent, !.events = Null,
                 !.resp = Received]]
  /\ UNCHANGED <<now, delivered, ok200, tool, overlapped>>

\* aiohttp sends the response and the connection is free again
Reply(s) ==
  /\ conn[s].pc = "responding"
  /\ ok200' = IF conn[s].resp.status = 200 THEN ok200 + 1 ELSE ok200
  /\ conn' = [conn EXCEPT ![s] = IdleConn]
  /\ UNCHANGED <<fs, now, delivered, appended, tool, overlapped>>

(***************************************************************************)
(* The MCP process                                                          *)
(***************************************************************************)
Busy == \E s \in Slots : InRewrite(s)

CallRecent(limit) ==
  /\ tool' = [op |-> "get_recent_actions_events", arg |-> Num(limit),
              out |-> get_recent_actions_events(fs[EVENTS_FILE_server], limit),
              at |-> Len(appended), quiet |-> ~Busy]
  /\ UNCHANGED <<fs, now, conn, delivered, appended, ok200, overlapped>>

CallStatus(name) ==
  /\ tool' = [op |-> "get_workflow_status", arg |-> name,
              out |-> get_workflow_status(fs[EVENTS_FILE_server], name),
              at |-> Len(appended), quiet |-> ~Busy]
  /\ UNCHANGED <<fs, now, conn, delivered, appended, ok200, overlapped>>

(***************************************************************************)
(* Specifications                                                           *)
(***************************************************************************)
\* <<header, body>>: every body, and the first two under either header
Inputs == {<<1 + (b % 2), b>> : b \in 1..Len(Bodies)} \cup {<<2, 1>>, <<1, 2>>}

\* both processes, a few deliveries of every kind
Next ==
  \/ \E s \in Slots, i \in Inputs : Receive(s, i[1], i[2], MaxRequests)
  \/ \E s \in Slots : RunHandler(s)
  \/ \E s \in Slots : OpenWrite(s)
  \/ \E s \in Slots : Dump(s)
  \/ \E s \in Slots : Reply(s)
  \/ \E limit \in {1, MaxLimit} : CallRecent(limit)
  \/ \E name \in {Null, Str("CI")} : CallStatus(name)

Spec == Init /\ [][Next]_vars

\* the webhook process alone, more deliveries than the log keeps
NextCap ==
  \/ \E s \in Slots : Receive(s, CapInput[1], CapInput[2], MaxAppends)
  \/ \E s \in Slots : RunHandler(s)
  \/ \E s \in Slots : OpenWrite(s)
  \/ \E s \in Slots : Dump(s)
  \/ \E s \in Slots : Reply(s)

SpecCap == Init /\ [][NextCap]_vars

\* the MCP process alone, on every content of its EVENTS_FILE
InitQuery ==
  /\ \E sv \in EnvFiles : fs = Files(MissingFile, sv)
  /\ now = 1
  /\ conn = [s \in Slots |-> IdleConn]
  /\ delivered = 0
  /\ appended = <<>>
  /\ ok200 = 0
  /\ tool = NoCall
  /\ overlapped = FALSE

NextQuery ==
  \/ \E limit \in Limits : CallRecent(limit)
  \/ \E name \in WorkflowNames : CallStatus(name)

SpecQuery == InitQuery /\ [][NextQuery]_vars

(***************************************************************************)
(* Properties                                                               *)
(***************************************************************************)
\* the log handle_webhook's file holds (no file: no events)
StoredLog ==
  IF fs[EVENTS_FILE_webhook].kind = "json" /\ fs[EVENTS_FILE_webhook].doc.t = "arr"
  THEN fs[EVENTS_FILE_webhook].doc.v ELSE <<>>

\* the last n elements of s
LastN(s, n) == [i \in 1..n |-> s[Len(s) - n + i]]

Quiescent == \A s \in Slots : conn[s].pc = "idle"

\* C1: after N successful appends from an empty or missing file, whenever no
\* rewrite is under way the stored log is exactly the last min(N, 100) appended
\* events in arrival order: never longer than 100, the oldest evicted first
C1_BoundedLog ==
  fs[EVENTS_FILE_webhook].kind # "partial" =>
    /\ Len(StoredLog) = Min(Len(appended), Cap)
    /\ Len(StoredLog) <= Cap
    /\ StoredLog = LastN(appended, Min(Len(appended), Cap))

\* more than 100 appends have taken effect and the oldest are gone
C1_Witness ==
  /\ fs[EVENTS_FILE_webhook].kind = "json"
  /\ Len(appended) > Cap
  /\ Len(StoredLog) = Cap
  /\ StoredLog[1] = appended[Len(appended) - Cap + 1]
  /\ StoredLog[1] # appended[1]

\* C3: deliveries handled concurrently serialize: once every delivery has been
\* answered 200, each delivered event (one per clock reading) is in the history
\* of appends exactly once, and the stored log is the last min(N, 100) of them
\* in the order the appends took effect
C3_ConcurrentAppendsSerialize ==
  (Quiescent /\ ok200 = delivered) =>
    /\ Len(appended) = delivered
    /\ \A t \in 1..(now - 1) :
         Cardinality({i \in DOMAIN appended : appended[i].timestamp = t}) = 1
    /\ StoredLog = LastN(appended, Min(Len(appended), Cap))

\* handlers have overlapped, all have answered 200, and the cap has been passed
C3_Witness ==
  /\ overlapped
  /\ Quiescent
  /\ ok200 = delivered
  /\ delivered > Cap
  /\ Len(StoredLog) = Cap

\* C5: a body that is no JSON is answered 400 with an error payload by the same
\* step that reads it, and that step leaves the file system as it was
C5_MalformedBodyRejected ==
  [][\A s \in Slots :
       (/\ conn[s].pc = "await_json"
        /\ ~Bodies[conn[s].body].wellformed
        /\ conn'[s].pc # "await_json")
       => /\ conn'[s].pc = "responding"
          /\ conn'[s].resp.status = 400
          /\ DOMAIN conn'[s].resp.body.v = {"error"}
          /\ fs' = fs
          /\ appended' = appended]_vars

\* a malformed body has been rejected while the log held events
C5_Witness ==
  \E s \in Slots :
    /\ conn[s].pc = "responding"
    /\ ~Bodies[conn[s].body].wellformed
    /\ conn[s].resp.status = 400
    /\ Len(StoredLog) >= 1
    /\ StoredLog = appended

\* C2: after an append answered 200, get_recent_actions_events(limit >= 1),
\* called while no append is under way, returns a list ending with that event
C2_SameDurableRecord ==
  (/\ tool.op = "get_recent_actions_events"
   /\ tool.arg.v >= 1
   /\ tool.at >= 1
   /\ tool.quiet)
  => /\ tool.out.kind = "return"
     /\ tool.out.value.t = "arr"
     /\ Len(tool.out.value.v) >= 1
     /\ tool.out.value.v[Len(tool.out.value.v)] = appended[tool.at]

\* C4: the file handle_webhook rewrites is at every moment absent or a complete
\* log, the one before the append under way or the one after it
C4_AtomicRewrite ==
  /\ fs[EVENTS_FILE_webhook].kind \in {"missing", "json"}
  /\ \/ StoredLog = LastN(appended, Min(Len(appended), Cap))
     \/ \E s \in Slots : InRewrite(s) /\ StoredLog = conn[s].events.v

\* C6: a request whose body is a JSON object leaves line 20 for the rewrite,
\* about to store the old log plus one event whose event_type is the
\* X-GitHub-Event header or "unknown"; it is never answered 400
C6_ObjectAccepted ==
  [][\A s \in Slots :
       (/\ conn[s].pc = "await_json"
        /\ Bodies[conn[s].body].wellformed
        /\ Bodies[conn[s].body].value.t = "obj"
        /\ conn'[s].pc # "await_json")
       => /\ conn'[s].pc = "opening"
          /\ conn'[s].events.t = "arr"
          /\ Len(conn'[s].events.v) = Min(Len(StoredLog) + 1, Cap)
          /\ conn'[s].event.event_type =
               (IF conn[s].hdr = 2 THEN "workflow_run" ELSE "unknown")]_vars

(***************************************************************************)
(* Properties of the tools, on the file at server.py's EVENTS_FILE          *)
(***************************************************************************)
ToolFile == fs[EVENTS_FILE_server]

\* the file holds a JSON array of events of the data model
HoldsLog ==
  /\ ToolFile.kind = "json"
  /\ ToolFile.doc.t = "arr"
  /\ \A i \in DOMAIN ToolFile.doc.v : ToolFile.doc.v[i] \in QEvents

ToolLog == ToolFile.doc.v

\* C7: on a log [e1..en] and a limit k >= 0, get_recent_actions_events returns
\* the last min(k, n) events in arrival order
C7_RecentWindow ==
  (/\ tool.op = "get_recent_actions_events"
   /\ HoldsLog
   /\ tool.arg.v >= 0)
  => tool.out = Return(Arr(LastN(ToolLog, Min(tool.arg.v, Len(ToolLog)))))

\* a <= b in the lexicographic order of strings: a is a prefix of b, or at
\* the first place they differ a has the smaller character
LexLE(a, b) ==
  \/ (Len(a) <= Len(b) /\ \A i \in 1..Len(a) : a[i] = b[i])
  \/ \E i \in 1..Min(Len(a), Len(b)) :
       /\ a[i] < b[i]
       /\ \A j \in 1..(i - 1) : a[j] = b[j]

\* the events of the log that carry a workflow_run named name
EventsNamed(name) ==
  {i \in DOMAIN ToolLog :
     ToolLog[i].workflow_run.t = "obj" /\ ToolLog[i].workflow_run.v.name.v = name}

NamesInLog ==
  {ToolLog[i].workflow_run.v.name.v :
     i \in {j \in DOMAIN ToolLog : ToolLog[j].workflow_run.t = "obj"}}

\* rec is the status record of the run of event i
RecordOf(rec, i) ==
  LET run == ToolLog[i].workflow_run.v
  IN  /\ DOMAIN rec = {"name", "status", "conclusion", "run_number", "updated_at", "html_url"}
      /\ rec.name = run.name
      /\ rec.status = run.status
      /\ rec.conclusion = (IF "conclusion" \in DOMAIN run THEN run.conclusion ELSE Null)
      /\ rec.run_number = run.run_number
      /\ rec.updated_at = run.updated_at
      /\ rec.html_url = run.html_url

\* rec is taken from an event named name whose updated_at no event of that
\* name exceeds
LatestOf(rec, name) ==
  \E i \in EventsNamed(name) :
    /\ RecordOf(rec, i)
    /\ \A j \in EventsNamed(name) :
         LexLE(ToolLog[j].workflow_run.v.updated_at.v,
               ToolLog[i].workflow_run.v.updated_at.v)

\* the result is a mapping from exactly the names of the log to their latest records
LatestPerName ==
  /\ tool.out.kind = "return"
  /\ tool.out.value.t = "obj"
  /\ DOMAIN tool.out.value.v = NamesInLog
  /\ \A name \in NamesInLog : LatestOf(tool.out.value.v[name], name)

\* C8 as stated: on every stored log, get_workflow_status without a filter
\* returns the latest record of exactly the names of the log
C8_LatestWinsAnyLog ==
  (/\ tool.op = "get_workflow_status"
   /\ tool.arg = Null
   /\ HoldsLog)
  => LatestPerName

\* C8, amended: on every stored log that holds at least one event,
\* get_workflow_status without a filter returns the latest record (greatest
\* updated_at string) of exactly the names of the log, whatever the order the
\* events were appended in
C8_LatestWins ==
  (/\ tool.op = "get_workflow_status"
   /\ tool.arg = Null
   /\ HoldsLog
   /\ Len(ToolLog) >= 1)
  => LatestPerName

\* the record kept is that of an earlier event: a later event of the same name
\* with a smaller updated_at ("10" after "2") did not replace it
C8_Witness ==
  /\ tool.op = "get_workflow_status"
  /\ tool.arg = Null
  /\ HoldsLog
  /\ Len(ToolLog) = 3
  /\ ToolLog[1].workflow_run = Run("CI", <<2>>, 3, Null)
  /\ ToolLog[2].workflow_run = Run("Deploy", <<1>>, 5, Str("success"))
  /\ ToolLog[3].workflow_run = Run("CI", <<1, 0>>, 2, Str("success"))
  /\ tool.out.kind = "return"
  /\ DOMAIN tool.out.value.v = {"CI", "Deploy"}
  /\ tool.out.value.v["CI"].run_number = Num(3)

\* C9: with a non-empty workflow_name, the result holds the latest record of
\* that name whenever the log has an event of it, and no other name of the log
C9_NameFilter ==
  (/\ tool.op = "get_workflow_status"
   /\ tool.arg.t = "str"
   /\ tool.arg.v # ""
   /\ HoldsLog)
  => /\ tool.out.kind = "return"
     /\ tool.out.value.t = "obj"
     /\ EventsNamed(tool.arg.v) # {} =>
          /\ tool.arg.v \in DOMAIN tool.out.value.v
          /\ LatestOf(tool.out.value.v[tool.arg.v], tool.arg.v)
     /\ DOMAIN tool.out.value.v \cap NamesInLog \subseteq {tool.arg.v}

\* C10: whatever the file holds, each tool returns a result and raises nothing;
\* on a file that exists and is no JSON array of events the result carries an
\* error field and is not the "no events" message
C10_FailuresConverted ==
  tool.op # "none" =>
    /\ tool.out.kind = "return"
    /\ (ToolFile.kind = "partial" \/ (ToolFile.kind = "json" /\ ~HoldsLog)) =>
         /\ tool.out.value.t = "obj"
         /\ "error" \in DOMAIN tool.out.value.v
         /\ tool.out # NoEventsMessage

====
